---------------------------- MODULE Spec2Model ----------------------------
(***************************************************************************)
(* Model of the structured-event subsystem of rlog_generator:              *)
(*   utils.py       get_function, exec_function_str, get_random_value,     *)
(*                  the func_* generators, get_windows_event_log           *)
(*   validators.py  validate_guid, validate_system_properties,             *)
(*                  validate_event_data, validate_event_descriptor,        *)
(*                  validate_security_event_data,                          *)
(*                  validate_windows_event_config                          *)
(*   windows_event_types.py  SecurityEventID, SECURITY_EVENT_TEMPLATES,    *)
(*                  validate_security_event                                *)
(*                                                                         *)
(* Python str values are TLA+ strings, read character by character with    *)
(* SubSeq.  Every other Python value is a tagged record (PyStr, PyInt,     *)
(* PyDict, PyList); a dict keeps its items in insertion order.  A call     *)
(* either returns a value or raises: Ret(v) / Raise(exc, msg, args).       *)
(***************************************************************************)
EXTENDS Integers, Sequences, FiniteSets, TLC

VARIABLES op, arg, out

vars == <<op, arg, out>>

---------------------------------------------------------------------------
(* Bounds of the model *)

\* number of distinct values the random source yields in the model
MaxRnd == 2

---------------------------------------------------------------------------
(* Python str operations *)

\* F(x) with x evaluated once, before F reads it
Bind(F(_), x) == CHOOSE r \in {F(v) : v \in {x}} : TRUE

Ch(s, i) == SubSeq(s, i, i)

StartsWith(s, p) == Len(s) >= Len(p) /\ SubSeq(s, 1, Len(p)) = p

EndsWith(s, p) == Len(s) >= Len(p) /\ SubSeq(s, Len(s) - Len(p) + 1, Len(s)) = p

\* str.isspace() on one character (the ASCII whitespace the inputs use)
IsSpace(c) == c \in {" ", "\t", "\n", "\r"}

\* first position >= i of s whose character satisfies / does not satisfy
\* IsSpace; Len(s)+1 when there is none
RECURSIVE SkipSpace(_, _)
SkipSpace(s, i) ==
    IF i > Len(s) THEN i
    ELSE IF IsSpace(Ch(s, i)) THEN SkipSpace(s, i + 1) ELSE i

RECURSIVE SkipWord(_, _)
SkipWord(s, i) ==
    IF i > Len(s) THEN i
    ELSE IF IsSpace(Ch(s, i)) THEN i ELSE SkipWord(s, i + 1)

\* str.split(): the maximal runs of non-whitespace, in order
RECURSIVE SplitFrom(_, _)
SplitFrom(s, i) ==
    LET Word(b) == Bind(LAMBDA e : <<SubSeq(s, b, e - 1)>> \o SplitFrom(s, e),
                        SkipWord(s, b))
    IN  Bind(LAMBDA b : IF b > Len(s) THEN << >> ELSE Word(b), SkipSpace(s, i))

Split(s) == SplitFrom(s, 1)

\* str.split(sep) for a one-character separator: the pieces between the
\* separators, empty pieces kept
RECURSIVE SplitOnFrom(_, _, _, _)
SplitOnFrom(s, sep, b, i) ==
    IF i > Len(s) THEN <<SubSeq(s, b, Len(s))>>
    ELSE IF Ch(s, i) = sep
         THEN <<SubSeq(s, b, i - 1)>> \o SplitOnFrom(s, sep, i + 1, i + 1)
         ELSE SplitOnFrom(s, sep, b, i + 1)

SplitOn(s, sep) == SplitOnFrom(s, sep, 1, 1)

UpperLetters == "ABCDEFGHIJKLMNOPQRSTUVWXYZ"
LowerLetters == "abcdefghijklmnopqrstuvwxyz"

\* the lower-case letter of each upper-case letter
LowerOfUpper ==
    [c \in {Ch(UpperLetters, i) : i \in 1..26} |->
        Ch(LowerLetters, CHOOSE j \in 1..26 : Ch(UpperLetters, j) = c)]

\* str.lower()
RECURSIVE Lower(_)
Lower(s) ==
    IF s = "" THEN ""
    ELSE (IF Ch(s, 1) \in DOMAIN LowerOfUpper THEN LowerOfUpper[Ch(s, 1)] ELSE Ch(s, 1))
         \o Lower(SubSeq(s, 2, Len(s)))

\* sep.join(parts)
RECURSIVE Join(_, _)
Join(parts, sep) ==
    IF parts = << >> THEN ""
    ELSE IF Len(parts) = 1 THEN parts[1]
    ELSE parts[1] \o sep \o Join(Tail(parts), sep)

Digits == "0123456789"

\* the value of each decimal digit
DigitValOf ==
    [c \in {Ch(Digits, i) : i \in 1..10} |-> (CHOOSE i \in 1..10 : Ch(Digits, i) = c) - 1]

\* str(n) for an int
RECURSIVE NatToStr(_)
NatToStr(n) ==
    IF n < 10 THEN Ch(Digits, n + 1)
    ELSE NatToStr(n \div 10) \o Ch(Digits, (n % 10) + 1)

IntToStr(n) == IF n < 0 THEN "-" \o NatToStr(0 - n) ELSE NatToStr(n)

RECURSIVE AllDigits(_)
AllDigits(s) ==
    s = "" \/ (Ch(s, 1) \in DOMAIN DigitValOf /\ AllDigits(SubSeq(s, 2, Len(s))))

RECURSIVE DigitsVal(_, _)
DigitsVal(s, acc) ==
    IF s = "" THEN acc
    ELSE DigitsVal(SubSeq(s, 2, Len(s)), acc * 10 + DigitValOf[Ch(s, 1)])

---------------------------------------------------------------------------
(* Python values and call outcomes *)

PyStr(s) == [t |-> "str", s |-> s]
PyInt(n) == [t |-> "int", n |-> n]
PyBool(b) == [t |-> "bool", b |-> b]
PyList(l) == [t |-> "list", elems |-> l]
PyDict(kv) == [t |-> "dict", items |-> kv]
PyNone == [t |-> "none"]

KV(k, v) == [k |-> k, v |-> v]

IsStr(x) == x.t = "str"
IsDict(x) == x.t = "dict"
IsList(x) == x.t = "list"

\* x == s for a str s
StrEq(x, s) == IsStr(x) /\ x.s = s

\* x == n for an int n: an int or a bool of that value, never a str
IntEq(x, n) ==
    \/ (x.t = "int" /\ x.n = n)
    \/ (x.t = "bool" /\ (IF x.b THEN 1 ELSE 0) = n)

\* key in d
Has(d, key) == \E i \in 1..Len(d.items) : d.items[i].k = key

\* d[key] for a key that is present: a later item never repeats a key
Get(d, key) == d.items[CHOOSE i \in 1..Len(d.items) : d.items[i].k = key].v

\* d.get(key): None when the key is absent
GetOrNone(d, key) == IF Has(d, key) THEN Get(d, key) ELSE PyNone

\* d[key] = v on a dict: replaces the value in place, or appends the item
SetItem(d, key, v) ==
    IF Has(d, key)
    THEN PyDict([i \in 1..Len(d.items) |->
                    IF d.items[i].k = key THEN KV(key, v) ELSE d.items[i]])
    ELSE PyDict(Append(d.items, KV(key, v)))

\* del d[key]
DelItem(d, key) == PyDict(SelectSeq(d.items, LAMBDA it : it.k # key))

\* bool(x): the truth value Python gives a value
Truthy(x) ==
    CASE x.t = "none" -> FALSE
      [] x.t = "str"  -> x.s # ""
      [] x.t = "int"  -> x.n # 0
      [] x.t = "bool" -> x.b
      [] x.t = "list" -> x.elems # << >>
      [] x.t = "dict" -> x.items # << >>

Ret(v) == [kind |-> "return", val |-> v]
Raise(exc, msg, args) == [kind |-> "raise", exc |-> exc, msg |-> msg, args |-> args]

Raised(o) == o.kind = "raise"
Returned(o) == o.kind = "return"

\* one statement after another: what `first` raised, or else `rest`
Then(first, rest) == Bind(LAMBDA r : IF Raised(r) THEN r ELSE rest, first)

\* the exception class every validator is documented to raise
ValidationError == "WindowsEventValidationError"

\* int(x) for a str (surrounding whitespace, optional sign, decimal digits),
\* an int or a bool; ValueError for any other text, TypeError for any other
\* value
PyIntOf(x) ==
    CASE x.t = "int"  -> Ret(x.n)
      [] x.t = "bool" -> Ret(IF x.b THEN 1 ELSE 0)
      [] x.t = "str"  ->
            LET Invalid == Raise("ValueError", "invalid literal for int() with base 10",
                                 <<x.s>>)
                Parse(neg, body) ==
                    IF body # "" /\ AllDigits(body)
                    THEN Ret(IF neg THEN 0 - DigitsVal(body, 0) ELSE DigitsVal(body, 0))
                    ELSE Invalid
                Signed(t) ==
                    Parse(StartsWith(t, "-"),
                          IF StartsWith(t, "-") \/ StartsWith(t, "+")
                          THEN SubSeq(t, 2, Len(t)) ELSE t)
            IN  Bind(LAMBDA tokens : IF Len(tokens) # 1 THEN Invalid ELSE Signed(tokens[1]),
                     Split(x.s))
      [] OTHER -> Raise("TypeError", "int() argument must be a string or a number", <<x.t>>)

\* str(x) for the values a configuration field holds
PyStrOf(x) ==
    CASE x.t = "str"  -> x.s
      [] x.t = "int"  -> IntToStr(x.n)
      [] x.t = "bool" -> IF x.b THEN "True" ELSE "False"
      [] x.t = "none" -> "None"
      [] OTHER -> "<" \o x.t \o ">"

---------------------------------------------------------------------------
(* utils.py: the random source, the clock and the generators *)

\* the date and time of day the clock shows, as strftime("%Y-%m-%dT%H:%M:%S")
\* renders it; the microsecond is the part of the clock the model varies
ClockSeconds == "2024-02-20T10:00:00"

\* microseconds datetime.now() can show: a whole second, or not
ClockMicros == {0, 574603}

\* one sample of the environment a generator reads: the value of the random
\* source and the microsecond of the clock
Env == [rnd : 0..(MaxRnd - 1), usec : ClockMicros]

\* "%06d" % n
Pad6(n) ==
    LET d == NatToStr(n)
    IN  SubSeq("000000", 1, 6 - Len(d)) \o d

HexDigitsLower == "0123456789abcdef"

\* random.randint(lo, hi): lo <= result <= hi, decided by the random source
RandomRandint(lo, hi, e) == lo + (e.rnd % (hi - lo + 1))

\* randint(min_value, max_value): random.randint(int(min_value), int(max_value))
Randint(min_value, max_value, e) ==
    LET lo == PyIntOf(min_value)
        hi == PyIntOf(max_value)
    IN  IF Raised(lo) THEN lo
        ELSE IF Raised(hi) THEN hi
        ELSE Ret(PyInt(RandomRandint(lo.val, hi.val, e)))

\* randip(): the dotted quad of random.randint(1, 0xffffffff); the model's
\* random source reaches the addresses 0.0.0.1 .. 0.0.0.MaxRnd
Randip(e) == Ret(PyStr("0.0.0." \o NatToStr(1 + (e.rnd % 255))))

\* func_guid(): "{" + str(uuid.uuid4()) + "}"
FuncGuid(e) ==
    Ret(PyStr("{" \o "82003b7c-12d6-4853-b3b8-4ee0d0873e1"
                  \o Ch(HexDigitsLower, (e.rnd % 16) + 1) \o "}"))

\* func_sid(): f"S-1-5-21-{random.randint(1000000000,9999999999)}"
FuncSid(e) == Ret(PyStr("S-1-5-21-" \o "735478675" \o NatToStr(e.rnd % 10)))

\* func_hostname(): f"WIN-{random.randint(1000,9999)}"
FuncHostname(e) == Ret(PyStr("WIN-" \o NatToStr(RandomRandint(1000, 9999, e))))

\* func_datetime(): datetime.now().isoformat(), which prints the
\* microseconds unless they are zero
FuncDatetime(e) ==
    Ret(PyStr(IF e.usec = 0 THEN ClockSeconds
              ELSE ClockSeconds \o "." \o Pad6(e.usec)))

\* func_datetime_iso8601(): datetime.now().strftime("%Y-%m-%dT%H:%M:%S")
FuncDatetimeIso8601(e) == Ret(PyStr(ClockSeconds))

\* the attributes of the utils module whose name starts with func_
ModuleFuncAttrs ==
    {"func_guid", "func_sid", "func_hostname", "func_datetime",
     "func_datetime_iso8601"}

\* a callable of the utils module called with positional arguments: the
\* generators take none, randint two
CallModuleFunc(name, args, e) ==
    CASE name = "randint" ->
            IF Len(args) = 2 THEN Randint(PyStr(args[1]), PyStr(args[2]), e)
            ELSE Raise("TypeError", "randint() takes 2 positional arguments", <<Len(args)>>)
      [] Len(args) # 0 ->
            Raise("TypeError", name \o "() takes 0 positional arguments", <<Len(args)>>)
      [] name = "randip"                -> Randip(e)
      [] name = "func_guid"             -> FuncGuid(e)
      [] name = "func_sid"              -> FuncSid(e)
      [] name = "func_hostname"         -> FuncHostname(e)
      [] name = "func_datetime"         -> FuncDatetime(e)
      [] name = "func_datetime_iso8601" -> FuncDatetimeIso8601(e)

---------------------------------------------------------------------------
(* utils.py: the Value Provider *)

Marker == "func_"

\* the name get_function looks up in the module: "func_" + the text between
\* the first and the second underscore of function_str
LookupName(function_str) == "func_" \o SplitOn(function_str, "_")[2]

\* get_function(function_str): the callable, or ValueError
GetFunction(function_str) ==
    IF ~StartsWith(function_str, Marker)
    THEN Ret([fn |-> "lambda", closure |-> function_str])
    ELSE LET name == LookupName(function_str)
         IN  IF name \in ModuleFuncAttrs
             THEN Ret([fn |-> name, closure |-> ""])
             ELSE Raise("ValueError", "Unknown function", <<name>>)

\* func(*args) for what get_function returned; the lambda takes no argument
CallFunc(func, args, e) ==
    IF func.fn = "lambda"
    THEN IF Len(args) = 0 THEN Ret(PyStr(func.closure))
         ELSE Raise("TypeError", "<lambda>() takes 0 positional arguments", <<Len(args)>>)
    ELSE CallModuleFunc(func.fn, args, e)

\* exec_function_str(function_str)
ExecFunctionStr(function_str, e) ==
    LET Exec(tokens) ==
            IF tokens = << >>
            THEN Raise("IndexError", "list index out of range", << >>)
            ELSE Bind(LAMBDA func : IF Raised(func) THEN func
                                    ELSE CallFunc(func.val, Tail(tokens), e),
                      GetFunction(tokens[1]))
    IN  Bind(Exec, Split(function_str))

\* the exceptions get_random_value catches
CaughtByGetRandomValue == {"ValueError", "IndexError"}

\* get_random_value(field_value)
GetRandomValue(field_value, e) ==
    IF ~IsStr(field_value) THEN Ret(PyStr(PyStrOf(field_value)))
    ELSE Bind(LAMBDA r : IF Raised(r) /\ r.exc \in CaughtByGetRandomValue
                         THEN Ret(field_value)
                         ELSE r,
              ExecFunctionStr(field_value.s, e))

---------------------------------------------------------------------------
(* validators.py: GUID_PATTERN and validate_guid *)

HexDigitSet ==
    {Ch("0123456789abcdefABCDEF", i) : i \in 1..22}

\* the pattern between ^ and $: one character class per position
GuidClasses ==
    LET H == HexDigitSet
        Rep(n) == [i \in 1..n |-> H]
    IN  <<{"{"}>> \o Rep(8) \o <<{"-"}>> \o Rep(4) \o <<{"-"}>> \o Rep(4)
        \o <<{"-"}>> \o Rep(4) \o <<{"-"}>> \o Rep(12) \o <<{"}"}>>

\* the characters of s from position 1 match the classes, one each
MatchesClasses(s, classes) ==
    /\ Len(s) >= Len(classes)
    /\ \A i \in 1..Len(classes) : Ch(s, i) \in classes[i]

\* "$" of Python's re without MULTILINE, at position pos (1-based, the next
\* character to read): the end of the string, or just before a line break
\* that is the string's last character
DollarAt(s, pos) ==
    \/ pos = Len(s) + 1
    \/ (pos = Len(s) /\ Ch(s, pos) = "\n")

\* validate_guid(guid): bool(re.match(GUID_PATTERN, guid))
ValidateGuid(guid) ==
    MatchesClasses(guid, GuidClasses) /\ DollarAt(guid, Len(GuidClasses) + 1)

---------------------------------------------------------------------------
(* validators.py: the Schema Validator *)

\* a validator that returns None
Ok == Ret(PyNone)

\* re.match / a regular expression applied to a value that is not a str
NotAString(x) == Raise("TypeError", "expected string or bytes-like object", <<x.t>>)

\* validate_guid on a configuration value
ValidateGuidValue(x) == IF IsStr(x) THEN Ret(ValidateGuid(x.s)) ELSE NotAString(x)

\* HEX_INT64_PATTERN, ^0[xX][0-9A-Fa-f]{1,16}$, through validate_hex_value
ValidateHex64(s) ==
    /\ Len(s) >= 3
    /\ Ch(s, 1) = "0"
    /\ Ch(s, 2) \in {"x", "X"}
    /\ \E n \in 1..16 :
          /\ Len(s) >= 2 + n
          /\ \A i \in 3..(2 + n) : Ch(s, i) \in HexDigitSet
          /\ DollarAt(s, 3 + n)

\* the names of `required` that are not keys of d, in the order of `required`
MissingKeys(required, d) == SelectSeq(required, LAMBDA f : ~Has(d, f))

\* the GUID attribute `key` of a Provider or Correlation element: checked
\* when it is present and truthy
ValidateGuidAttr(d, key, msg) ==
    LET Check(id) ==
            IF ~Truthy(id) THEN Ok
            ELSE Bind(LAMBDA g : IF Raised(g) THEN g
                                 ELSE IF ~g.val THEN Raise(ValidationError, msg, <<id>>)
                                 ELSE Ok,
                      ValidateGuidValue(id))
    IN  Bind(Check, GetOrNone(d, key))

\* validate_provider(provider)
ValidateProvider(provider) ==
    IF ~Truthy(GetOrNone(provider, "Name")) /\ ~Truthy(GetOrNone(provider, "Guid"))
    THEN Raise(ValidationError, "Provider must have either Name or Guid attribute", << >>)
    ELSE ValidateGuidAttr(provider, "Guid", "Invalid Provider GUID format")

\* validate_correlation(correlation)
ValidateCorrelation(correlation) ==
    Then(ValidateGuidAttr(correlation, "ActivityID", "Invalid ActivityID GUID format"),
         ValidateGuidAttr(correlation, "RelatedActivityID",
                          "Invalid RelatedActivityID GUID format"))

\* the body of validate_execution's loop for one field
ValidateExecutionField(execution, field) ==
    LET Check(value) ==
            IF Raised(value)
            THEN IF value.exc = "ValueError"
                 THEN Raise(ValidationError, "Invalid " \o field \o " value",
                            <<Get(execution, field)>>)
                 ELSE value
            ELSE IF value.val < 0
            THEN Raise(ValidationError, field \o " must be non-negative", <<value.val>>)
            ELSE Ok
    IN  IF ~Has(execution, field) THEN Ok
        ELSE Bind(Check, PyIntOf(Get(execution, field)))

\* validate_execution(execution)
ValidateExecution(execution) ==
    LET Fields(missing) ==
            IF missing # << >>
            THEN Raise(ValidationError, "Missing required Execution attributes", missing)
            ELSE Then(ValidateExecutionField(execution, "ProcessID"),
                 Then(ValidateExecutionField(execution, "ThreadID"),
                      ValidateExecutionField(execution, "SessionID")))
    IN  Bind(Fields, MissingKeys(<<"ProcessID", "ThreadID">>, execution))

\* the try block of validate_system_properties that validates EventID
ValidateEventID(eventID) ==
    LET Invalid(e) == Raise(ValidationError, "Invalid EventID", <<eventID, e.exc>>)
        NonNegative(id) ==
            IF id.val < 0
            THEN Raise(ValidationError, "EventID must be non-negative", <<id.val>>)
            ELSE Ok
        Qualifiers(id, qual) ==
            IF Raised(qual) THEN Invalid(qual)
            ELSE IF qual.val < 0
            THEN Raise(ValidationError, "EventID Qualifiers must be non-negative",
                       <<qual.val>>)
            ELSE NonNegative(id)
        Parsed(id) ==
            IF Raised(id) THEN Invalid(id)
            ELSE IF IsDict(eventID) /\ Has(eventID, "Qualifiers")
            THEN Bind(LAMBDA qual : Qualifiers(id, qual), PyIntOf(Get(eventID, "Qualifiers")))
            ELSE NonNegative(id)
    IN  IF IsDict(eventID) /\ ~Has(eventID, "_text")
        THEN Raise(ValidationError, "EventID dict must have '_text' field", << >>)
        ELSE Bind(Parsed, PyIntOf(IF IsDict(eventID) THEN Get(eventID, "_text") ELSE eventID))

\* the Keywords check of validate_system_properties
ValidateSystemKeywords(system) ==
    LET Check(kw) ==
            IF ~IsStr(kw) THEN NotAString(kw)
            ELSE IF ~ValidateHex64(kw.s)
            THEN Raise(ValidationError, "Invalid Keywords format", <<kw>>)
            ELSE Ok
    IN  IF ~Has(system, "Keywords") THEN Ok ELSE Bind(Check, Get(system, "Keywords"))

\* Version / Level converted with int() and compared with no range
SystemNumberUnchecked(system, field, hi) ==
    IF ~Has(system, field) THEN Ok
    ELSE Bind(LAMBDA n : IF Raised(n) THEN n ELSE Ok, PyIntOf(Get(system, field)))

\* the Version / Level checks of validate_system_properties: int() outside
\* any try block, then the range
ValidateSystemNumber(system, field, hi) ==
    LET Check(n) ==
            IF Raised(n) THEN n
            ELSE IF ~(0 <= n.val /\ n.val <= hi)
            THEN Raise(ValidationError,
                       field \o " must be between 0 and " \o NatToStr(hi), <<n.val>>)
            ELSE Ok
    IN  IF ~Has(system, field) THEN Ok ELSE Bind(Check, PyIntOf(Get(system, field)))

MaxVersion == 255
MaxLevel == 15

\* the required elements reported one at a time: only the first one missing
FirstRequiredElement(system) ==
    Bind(LAMBDA missing :
            IF missing # << >>
            THEN Raise(ValidationError, "Missing required System elements", <<Head(missing)>>)
            ELSE Ok,
         MissingKeys(<<"Provider", "EventID", "Computer">>, system))

\* the check "Required elements" of validate_system_properties
ValidateSystemRequired(system) ==
    Bind(LAMBDA missing :
            IF missing # << >>
            THEN Raise(ValidationError, "Missing required System elements", missing)
            ELSE Ok,
         MissingKeys(<<"Provider", "EventID", "Computer">>, system))

\* the checks of validate_system_properties with Level checked before Version
LevelBeforeVersion(system) ==
    Then(ValidateSystemRequired(system),
    Then(ValidateProvider(Get(system, "Provider")),
    Then(ValidateEventID(Get(system, "EventID")),
    Then(IF Has(system, "Correlation")
         THEN ValidateCorrelation(Get(system, "Correlation")) ELSE Ok,
    Then(IF Has(system, "Execution")
         THEN ValidateExecution(Get(system, "Execution")) ELSE Ok,
    Then(ValidateSystemKeywords(system),
    Then(ValidateSystemNumber(system, "Level", MaxLevel),
         ValidateSystemNumber(system, "Version", MaxVersion))))))))

\* validate_system_properties(system)
ValidateSystemProperties(system) ==
    Then(ValidateSystemRequired(system),
    Then(ValidateProvider(Get(system, "Provider")),
    Then(ValidateEventID(Get(system, "EventID")),
    Then(IF Has(system, "Correlation")
         THEN ValidateCorrelation(Get(system, "Correlation")) ELSE Ok,
    Then(IF Has(system, "Execution")
         THEN ValidateExecution(Get(system, "Execution")) ELSE Ok,
    Then(ValidateSystemKeywords(system),
    Then(ValidateSystemNumber(system, "Version", MaxVersion),
         ValidateSystemNumber(system, "Level", MaxLevel))))))))

\* the boolean words alone, without the entry for a dynamic specification
BooleanWords == {"yes", "no", "true", "false", "0", "1"}

\* the values a win:Boolean entry may hold, lower-cased
BooleanLexicon == {"yes", "no", "true", "false", "0", "1", "func_bool"}

\* the body of validate_event_data's loop for one entry
ValidateDataEntry(data) ==
    LET Boolean(value) ==
            IF value \notin BooleanLexicon
            THEN Raise(ValidationError, "Invalid boolean value", <<Get(data, "Name"), value>>)
            ELSE Ok
    IN  IF ~IsDict(data)
        THEN Raise(ValidationError, "Each Data element must be a dictionary", << >>)
        ELSE IF ~Has(data, "Name")
        THEN Raise(ValidationError, "Each Data element must have a Name", << >>)
        ELSE IF StrEq(GetOrNone(data, "Type"), "win:Boolean")
        THEN Bind(Boolean, Lower(IF Has(data, "_text") THEN PyStrOf(Get(data, "_text"))
                                 ELSE ""))
        ELSE Ok

\* the loop of validate_event_data from its i-th pass on: it ends at the
\* first entry the body rejects
RECURSIVE ValidateDataEntries(_, _)
ValidateDataEntries(entries, i) ==
    IF i > Len(entries) THEN Ok
    ELSE Then(ValidateDataEntry(entries[i]), ValidateDataEntries(entries, i + 1))

\* validate_event_data(event_data)
ValidateEventData(event_data) ==
    IF ~Has(event_data, "Data") THEN Ok
    ELSE IF ~IsList(Get(event_data, "Data"))
    THEN Raise(ValidationError, "EventData.Data must be a list", << >>)
    ELSE ValidateDataEntries(Get(event_data, "Data").elems, 1)

---------------------------------------------------------------------------
(* validators.py: the Descriptor Validator *)

\* int(s, 16): optional sign, optional 0x / 0X prefix, hexadecimal digits.
\* The value can exceed the integers of the model checker, so it is kept as
\* sign and magnitude, the magnitude in lower-case hexadecimal digits without
\* leading zeros
RECURSIVE StripZeros(_)
StripZeros(h) ==
    IF Len(h) > 1 /\ Ch(h, 1) = "0" THEN StripZeros(SubSeq(h, 2, Len(h))) ELSE h

RECURSIVE AllHex(_)
AllHex(s) == s = "" \/ (Ch(s, 1) \in HexDigitSet /\ AllHex(SubSeq(s, 2, Len(s))))

PyIntOfHex(s) ==
    LET Invalid == Raise("ValueError", "invalid literal for int() with base 16", <<s>>)
        Parse(neg, body) ==
            IF body # "" /\ AllHex(body)
            THEN Bind(LAMBDA h : Ret([neg |-> neg /\ h # "0", hex |-> Lower(h)]),
                      StripZeros(body))
            ELSE Invalid
        Unprefixed(neg, uns) ==
            Parse(neg, IF StartsWith(uns, "0x") \/ StartsWith(uns, "0X")
                       THEN SubSeq(uns, 3, Len(uns)) ELSE uns)
        Signed(t) ==
            Unprefixed(StartsWith(t, "-"),
                       IF StartsWith(t, "-") \/ StartsWith(t, "+")
                       THEN SubSeq(t, 2, Len(t)) ELSE t)
    IN  Bind(LAMBDA tokens : IF Len(tokens) # 1 THEN Invalid ELSE Signed(tokens[1]),
             Split(s))

\* hex(n) without the prefix, for n >= 0
RECURSIVE NatToHex(_)
NatToHex(n) ==
    IF n < 16 THEN Ch(HexDigitsLower, n + 1)
    ELSE NatToHex(n \div 16) \o Ch(HexDigitsLower, (n % 16) + 1)

\* the Keyword argument of the EventDescriptor constructor
KeywordOf(x) ==
    LET Number(n) ==
            IF Raised(n) THEN n
            ELSE Ret([neg |-> n.val < 0,
                      hex |-> NatToHex(IF n.val < 0 THEN 0 - n.val ELSE n.val)])
    IN  IF IsStr(x) THEN PyIntOfHex(x.s) ELSE Bind(Number, PyIntOf(x))

MaxOpcode == 240

\* the arguments of the EventDescriptor constructor, in its order
DescriptorArguments(descriptor) ==
    <<PyIntOf(Get(descriptor, "Id")), PyIntOf(Get(descriptor, "Version")),
      PyIntOf(Get(descriptor, "Channel")), PyIntOf(Get(descriptor, "Level")),
      PyIntOf(Get(descriptor, "Opcode")), PyIntOf(Get(descriptor, "Task")),
      KeywordOf(Get(descriptor, "Keyword"))>>

\* a range validation that looks at Opcode before Level
RangesOpcodeFirst(event_desc) ==
    IF ~(0 <= event_desc.Opcode /\ event_desc.Opcode <= MaxOpcode)
    THEN Raise(ValidationError, "Opcode must be between 0 and 240", <<event_desc.Opcode>>)
    ELSE IF ~(0 <= event_desc.Level /\ event_desc.Level <= MaxLevel)
    THEN Raise(ValidationError, "Level must be between 0 and 15", <<event_desc.Level>>)
    ELSE IF event_desc.Task < 0
    THEN Raise(ValidationError, "Task must be non-negative", <<event_desc.Task>>)
    ELSE Ret(event_desc)

\* the "Value range validation" of validate_event_descriptor
ValidateDescriptorRanges(event_desc) ==
    IF ~(0 <= event_desc.Level /\ event_desc.Level <= MaxLevel)
    THEN Raise(ValidationError, "Level must be between 0 and 15", <<event_desc.Level>>)
    ELSE IF ~(0 <= event_desc.Opcode /\ event_desc.Opcode <= MaxOpcode)
    THEN Raise(ValidationError, "Opcode must be between 0 and 240", <<event_desc.Opcode>>)
    ELSE IF event_desc.Task < 0
    THEN Raise(ValidationError, "Task must be non-negative", <<event_desc.Task>>)
    ELSE Ret(event_desc)

\* validate_event_descriptor(descriptor): the EventDescriptor, or the error
ValidateEventDescriptor(descriptor) ==
    LET \* the first conversion, in the constructor's argument order, to raise
        Construct(ints) ==
            LET bad == {i \in 1..7 : Raised(ints[i])}
            IN  IF bad # {}
                THEN Raise(ValidationError, "Invalid value in EventDescriptor",
                           <<ints[CHOOSE i \in bad : \A j \in bad : i <= j].exc>>)
                ELSE ValidateDescriptorRanges(
                        [Id |-> ints[1].val, Version |-> ints[2].val,
                         Channel |-> ints[3].val, Level |-> ints[4].val,
                         Opcode |-> ints[5].val, Task |-> ints[6].val,
                         Keyword |-> ints[7].val])
        Fields(missing) ==
            IF missing # << >>
            THEN Raise(ValidationError, "Missing required fields in EventDescriptor", missing)
            ELSE Bind(Construct, DescriptorArguments(descriptor))
    IN  Bind(Fields, MissingKeys(<<"Id", "Version", "Channel", "Level", "Opcode", "Task", "Keyword">>,
                              descriptor))

---------------------------------------------------------------------------
(* windows_event_types.py: the Security Template Validator *)

\* the values of the SecurityEventID enumeration
SecurityEventIDs == {4624, 4625, 4720, 4722, 4723, 4740, 4726}

LOGON_SUCCESS == 4624

\* SECURITY_EVENT_TEMPLATES[LOGON_SUCCESS]["required_fields"]
LogonRequiredFields ==
    <<"SubjectUserSid", "SubjectUserName", "SubjectDomainName", "SubjectLogonId",
      "LogonType", "RestrictedAdminMode", "VirtualAccount", "ElevatedToken">>

\* SECURITY_EVENT_TEMPLATES[LOGON_SUCCESS]["field_types"]
LogonFieldTypes ==
    [f \in {LogonRequiredFields[i] : i \in 1..8} |->
        CASE f = "SubjectUserSid"      -> "win:SID"
          [] f = "SubjectUserName"     -> "win:UnicodeString"
          [] f = "SubjectDomainName"   -> "win:UnicodeString"
          [] f = "SubjectLogonId"      -> "win:HexInt64"
          [] f = "LogonType"           -> "win:UInt32"
          [] f = "RestrictedAdminMode" -> "win:Boolean"
          [] f = "VirtualAccount"      -> "win:Boolean"
          [] f = "ElevatedToken"       -> "win:Boolean"]

\* the ids SECURITY_EVENT_TEMPLATES has an entry for
TemplateIds == {LOGON_SUCCESS}

SecurityEventTemplate(event_id) ==
    [required_fields |-> LogonRequiredFields, field_types |-> LogonFieldTypes]

\* the keys of {item['Name']: item for item in items}, in insertion order:
\* each name at the place of its first entry
RECURSIVE DataFieldNames(_)
DataFieldNames(items) ==
    IF items = << >> THEN << >>
    ELSE LET name == Get(items[Len(items)], "Name")
         IN  Bind(LAMBDA front : IF \E i \in 1..Len(front) : front[i] = name
                                 THEN front ELSE Append(front, name),
                  DataFieldNames(SubSeq(items, 1, Len(items) - 1)))

\* the value the dict comprehension keeps under a name: the last entry
\* carrying it
DataFieldOf(items, name) ==
    items[CHOOSE i \in 1..Len(items) :
            /\ Get(items[i], "Name") = name
            /\ \A j \in (i + 1)..Len(items) : Get(items[j], "Name") # name]

\* a list that stops at the first required field that is no key
FirstMissingField(template, names) ==
    LET missing == SelectSeq(template.required_fields,
                             LAMBDA f : ~\E i \in 1..Len(names) : names[i] = PyStr(f))
    IN  IF missing = << >> THEN << >> ELSE <<Head(missing)>>

\* the list missing_fields of validate_security_event: the required fields,
\* in the template's order, that are no key of data_fields
MissingFields(template, names) ==
    SelectSeq(template.required_fields,
              LAMBDA f : ~\E i \in 1..Len(names) : names[i] = PyStr(f))

\* the body of the loop "Validate field types" of validate_security_event
CheckFieldType(template, field_name, field_data) ==
    IF /\ field_name.t = "str"
       /\ field_name.s \in DOMAIN template.field_types
       /\ ~StrEq(GetOrNone(field_data, "Type"), template.field_types[field_name.s])
    THEN Raise("ValueError", "Invalid type for field",
               <<field_name.s, template.field_types[field_name.s],
                 GetOrNone(field_data, "Type")>>)
    ELSE Ok

\* the loop "Validate field types" over the keys of data_fields from
\* position i on
RECURSIVE CheckFieldTypes(_, _, _, _)
CheckFieldTypes(template, items, names, i) ==
    IF i > Len(names) THEN Ok
    ELSE Then(CheckFieldType(template, names[i], DataFieldOf(items, names[i])),
              CheckFieldTypes(template, items, names, i + 1))

\* validate_security_event(event_id, data) from the construction of
\* data_fields on
ValidateSecurityFields(event_id, template, entries) ==
    LET Types(names, missing_fields) ==
            IF missing_fields # << >>
            THEN Raise("ValueError", "Missing required fields for Security Event",
                       <<event_id, missing_fields>>)
            ELSE CheckFieldTypes(template, entries, names, 1)
        Fields(names) ==
            Bind(LAMBDA missing_fields : Types(names, missing_fields),
                 MissingFields(template, names))
    IN  IF \E i \in 1..Len(entries) : ~Has(entries[i], "Name")
        THEN Raise("KeyError", "Name", << >>)
        ELSE Bind(Fields, DataFieldNames(entries))

\* validate_security_event(event_id, data)
ValidateSecurityEvent(event_id, data) ==
    IF event_id \notin SecurityEventIDs
    THEN Raise("ValueError", "Unknown Security Event ID", <<event_id>>)
    ELSE IF event_id \notin TemplateIds
    THEN Raise("ValueError", "No template defined for Security Event ID", <<event_id>>)
    ELSE IF ~Has(data, "Data")
    THEN Raise("ValueError", "EventData must contain Data array", << >>)
    ELSE IF ~Truthy(Get(data, "Data"))
    THEN ValidateSecurityFields(event_id, SecurityEventTemplate(event_id), << >>)
    ELSE IF ~IsList(Get(data, "Data"))
    THEN Raise("TypeError", "object is not iterable", <<Get(data, "Data").t>>)
    ELSE ValidateSecurityFields(event_id, SecurityEventTemplate(event_id),
                                Get(data, "Data").elems)

\* validate_security_event_data(event_data, event_id)
ValidateSecurityEventData(event_data, event_id) ==
    LET Wrap(r) ==
            IF Raised(r) /\ r.exc = "ValueError"
            THEN Raise(ValidationError, "Security Event validation failed: " \o r.msg,
                       r.args)
            ELSE r
    IN  IF ~IsDict(event_data)
        THEN Raise(ValidationError, "Security Event data must be a dictionary", << >>)
        ELSE Bind(Wrap, ValidateSecurityEvent(event_id, event_data))

---------------------------------------------------------------------------
(* validators.py: RenderingInfo and the whole configuration *)

\* re.match(r'^[a-z]{2}-[A-Z]{2}$', culture)
MatchesCulture(culture) ==
    LET upper == DOMAIN LowerOfUpper
        lower == {LowerOfUpper[c] : c \in upper}
        classes == <<lower, lower, {"-"}, upper, upper>>
    IN  MatchesClasses(culture, classes) /\ DollarAt(culture, Len(classes) + 1)

MaxRenderingKeywords == 64

\* validate_rendering_info(rendering)
ValidateRenderingInfo(rendering) ==
    LET culture  == Get(rendering, "Culture")
        keywords == Get(rendering, "Keywords")
    IN  IF ~Has(rendering, "Culture")
        THEN Raise(ValidationError, "RenderingInfo must have Culture attribute", << >>)
        ELSE IF ~IsStr(culture) THEN NotAString(culture)
        ELSE IF ~MatchesCulture(culture.s)
        THEN Raise(ValidationError, "Invalid Culture format", <<culture>>)
        ELSE IF ~Has(rendering, "Keywords") THEN Ok
        ELSE IF ~IsDict(keywords) \/ ~Has(keywords, "Keyword")
        THEN Raise(ValidationError,
                   "Keywords in RenderingInfo must contain Keyword elements", << >>)
        ELSE IF ~IsList(Get(keywords, "Keyword"))
        THEN Raise(ValidationError, "Keywords.Keyword must be a list", << >>)
        ELSE IF Len(Get(keywords, "Keyword").elems) > MaxRenderingKeywords
        THEN Raise(ValidationError, "Maximum 64 Keywords allowed in RenderingInfo", << >>)
        ELSE Ok

\* STANDARD_CHANNELS
StandardChannels ==
    [c \in {"Application", "Security", "System", "Setup", "ForwardedEvents"} |->
        CASE c = "Application"     -> 1
          [] c = "Security"        -> 2
          [] c = "System"          -> 3
          [] c = "Setup"           -> 4
          [] c = "ForwardedEvents" -> 5]

\* the block "Additional validations..." of validate_windows_event_config:
\* the descriptor's Channel as the configuration holds it, compared with !=
ValidateChannel(config) ==
    LET system == Get(Get(config, "Event"), "System")
        channel_name == Get(system, "Channel")
        raw == Get(Get(config, "event_descriptor"), "Channel")
    IN  IF ~Has(system, "Channel") THEN Ok
        ELSE IF IsDict(channel_name) \/ IsList(channel_name)
        THEN Raise("TypeError", "unhashable type", <<channel_name.t>>)
        ELSE IF /\ IsStr(channel_name)
                /\ channel_name.s \in DOMAIN StandardChannels
                /\ ~IntEq(raw, StandardChannels[channel_name.s])
        THEN Raise(ValidationError, "Channel ID mismatch", <<channel_name.s>>)
        ELSE Ok

\* event_id in [e.value for e in SecurityEventID], for the Id as the
\* configuration holds it
IsSecurityEventId(event_id) == \E n \in SecurityEventIDs : IntEq(event_id, n)

\* the block "Event-specific validation" of validate_windows_event_config
ValidateEventSpecific(config) ==
    LET event == Get(config, "Event")
        event_id == Get(Get(config, "event_descriptor"), "Id")
    IN  IF ~IsSecurityEventId(event_id) THEN Ok
        ELSE IF ~Has(event, "EventData")
        THEN Raise(ValidationError, "Security Event requires EventData", <<event_id>>)
        ELSE ValidateSecurityEventData(Get(event, "EventData"),
                                       CHOOSE n \in SecurityEventIDs : IntEq(event_id, n))

\* the checks of validate_windows_event_config on the top-level fields, the
\* template and the Event structure
ValidateStructure(config) ==
    LET Fields(missing) ==
            IF missing # << >>
            THEN Raise(ValidationError, "Missing required fields", missing)
            ELSE IF ~IsDict(Get(config, "template"))
            THEN Raise(ValidationError, "Template must be a dictionary", << >>)
            ELSE IF \/ ~Has(Get(config, "template"), "message")
                    \/ ~Has(Get(config, "template"), "values")
            THEN Raise(ValidationError, "Template must contain message and values", << >>)
            ELSE IF ~Has(Get(config, "Event"), "System")
            THEN Raise(ValidationError, "Missing System element in Event", << >>)
            ELSE Ok
    IN  Bind(Fields, MissingKeys(<<"event_descriptor", "template", "Event">>, config))

\* validate_windows_event_config(config)
ValidateWindowsEventConfig(config) ==
    Then(ValidateStructure(config),
    Then(ValidateSystemProperties(Get(Get(config, "Event"), "System")),
    Then(ValidateEventDescriptor(Get(config, "event_descriptor")),
    Then(ValidateChannel(config),
    Then(ValidateEventSpecific(config),
    Then(IF Has(Get(config, "Event"), "RenderingInfo")
         THEN ValidateRenderingInfo(Get(Get(config, "Event"), "RenderingInfo")) ELSE Ok,
         IF Has(Get(config, "Event"), "EventData")
         THEN ValidateEventData(Get(Get(config, "Event"), "EventData")) ELSE Ok))))))

---------------------------------------------------------------------------
(* utils.py: the Serializer *)

XmlDeclaration == "<?xml version=\"1.0\" encoding=\"UTF-8\"?>"
EventNamespace == "http://schemas.microsoft.com/win/2004/08/events/event"
EventOpen == "<Event xmlns=\"" \o EventNamespace \o "\">"
EventClose == "</Event>"

\* whether get_random_value(field_value) calls a generator, and so reads
\* the random source or the clock
CallsGenerator(field_value) ==
    /\ IsStr(field_value)
    /\ Bind(LAMBDA tokens :
                /\ Len(tokens) = 1
                /\ Bind(LAMBDA func : Returned(func) /\ func.val.fn # "lambda",
                        GetFunction(tokens[1])),
            Split(field_value.s))

\* the sample the (n+1)-th generator call of a request reads
DrawAt(draws, n) == draws[n + 1]

\* one pass of a "for k, v in value.items()" loop.  st holds the attributes
\* and the text built so far, the number of generator calls made so far and
\* the exception raised; `resolve` tells System (attribute values through
\* get_random_value) from EventData (attribute values literal)
ElementStep(item, resolve, draws, st) ==
    LET k == item.k
        v == item.v
        called == (k = "_text" \/ resolve) /\ CallsGenerator(v)
        n == IF called THEN st.n + 1 ELSE st.n
        Step(r) ==
            IF Raised(r) THEN [st EXCEPT !.exc = r, !.n = n]
            ELSE IF k = "_text" THEN [st EXCEPT !.text = PyStrOf(r.val), !.n = n]
            ELSE [st EXCEPT !.attrs = Append(@, k \o "=\"" \o PyStrOf(r.val) \o "\""),
                            !.n = n]
    IN  Bind(Step, IF k = "_text" \/ resolve
                   THEN GetRandomValue(v, DrawAt(draws, st.n))
                   ELSE Ret(PyStr(PyStrOf(v))))

\* the loop from its i-th pass on; it ends when a pass raises
RECURSIVE ElementParts(_, _, _, _, _)
ElementParts(items, i, resolve, draws, st) ==
    IF i > Len(items) \/ Raised(st.exc) THEN st
    ELSE Bind(LAMBDA s : ElementParts(items, i + 1, resolve, draws, s),
              ElementStep(items[i], resolve, draws, st))

NoParts(n) == [attrs |-> << >>, text |-> "", n |-> n, exc |-> Ok]

\* one element line: f'    <{key} {" ".join(attrs)}>{text}</{key}>', or
\* without the attributes
ElementLine(key, attrs, text) ==
    IF attrs # << >>
    THEN "    <" \o key \o " " \o Join(attrs, " ") \o ">" \o text \o "</" \o key \o ">"
    ELSE "    <" \o key \o ">" \o text \o "</" \o key \o ">"

\* the line of an element whose parts were built without an exception
AppendElement(st, key, parts) ==
    IF Raised(parts.exc) THEN [st EXCEPT !.exc = parts.exc, !.n = parts.n]
    ELSE [xml |-> Append(st.xml, ElementLine(key, parts.attrs, parts.text)),
          n |-> parts.n, exc |-> Ok]

\* one pass of the loop over system.items(): st holds the lines, the number
\* of generator calls made and the exception raised
SystemStep(item, draws, st) ==
    IF IsDict(item.v)
    THEN Bind(LAMBDA parts : AppendElement(st, item.k, parts),
              ElementParts(item.v.items, 1, TRUE, draws, NoParts(st.n)))
    ELSE Bind(LAMBDA parts : AppendElement(st, item.k, parts),
              ElementStep(KV("_text", item.v), TRUE, draws, NoParts(st.n)))

RECURSIVE SystemLines(_, _, _, _)
SystemLines(items, i, draws, st) ==
    IF i > Len(items) \/ Raised(st.exc) THEN st
    ELSE Bind(LAMBDA s : SystemLines(items, i + 1, draws, s),
              SystemStep(items[i], draws, st))

\* a loop that writes no element for an entry without _text
RECURSIVE DataLinesWithText(_, _, _, _)
DataLinesWithText(entries, i, draws, st) ==
    IF i > Len(entries) \/ Raised(st.exc) THEN st
    ELSE IF ~Has(entries[i], "_text") THEN DataLinesWithText(entries, i + 1, draws, st)
    ELSE Bind(LAMBDA s : DataLinesWithText(entries, i + 1, draws, s),
              Bind(LAMBDA parts : AppendElement(st, "Data", parts),
                   ElementParts(entries[i].items, 1, FALSE, draws, NoParts(st.n))))

\* the loop over config['Event']['EventData']['Data']
RECURSIVE DataLines(_, _, _, _)
DataLines(entries, i, draws, st) ==
    IF i > Len(entries) \/ Raised(st.exc) THEN st
    ELSE Bind(LAMBDA s : DataLines(entries, i + 1, draws, s),
              Bind(LAMBDA parts : AppendElement(st, "Data", parts),
                   ElementParts(entries[i].items, 1, FALSE, draws, NoParts(st.n))))

AppendLine(st, line) == [st EXCEPT !.xml = Append(@, line)]

\* the section "Add EventData section if present" of get_windows_event_log
EventDataSection(event, draws, st) ==
    IF ~Has(event, "EventData") THEN st
    ELSE IF ~Has(Get(event, "EventData"), "Data")
    THEN [st EXCEPT !.exc = Raise("KeyError", "Data", << >>)]
    ELSE Bind(LAMBDA s : IF Raised(s.exc) THEN s ELSE AppendLine(s, "  </EventData>"),
              DataLines(Get(Get(event, "EventData"), "Data").elems, 1, draws,
                        AppendLine(st, "  <EventData>")))

\* the section "Add System section" and what follows it
EventSections(event, draws) ==
    LET head == [xml |-> <<XmlDeclaration, EventOpen, "  <System>">>, n |-> 0, exc |-> Ok]
    IN  Bind(LAMBDA sys : IF Raised(sys.exc) THEN sys
                          ELSE EventDataSection(event, draws, AppendLine(sys, "  </System>")),
             SystemLines(Get(event, "System").items, 1, draws, head))

\* get_windows_event_log(config); both except clauses re-raise
GetWindowsEventLog(config, draws) ==
    LET Body(valid) ==
            IF Raised(valid) THEN valid
            ELSE Bind(LAMBDA st : IF Raised(st.exc) THEN st.exc
                                  ELSE Ret(PyStr(Join(Append(st.xml, EventClose), "\n"))),
                      EventSections(Get(config, "Event"), draws))
    IN  Bind(Body, ValidateWindowsEventConfig(config))

---------------------------------------------------------------------------
(* The configurations the requests are made with: the valid configuration  *)
(* of tests/test_windows_event.py (setUp), varied one group of fields at a *)
(* time                                                                    *)

\* a field left out of a mapping
Absent == [t |-> "absent"]

SetOrDel(d, key, v) == IF v.t = "absent" THEN DelItem(d, key) ELSE SetItem(d, key, v)

ValidGuid == "{54849625-5478-4994-A5BA-3E3B0328C30D}"

BaseDescriptor ==
    PyDict(<<KV("Id", PyInt(4624)), KV("Version", PyInt(0)), KV("Channel", PyInt(2)),
             KV("Level", PyInt(0)), KV("Opcode", PyInt(0)), KV("Task", PyInt(12544)),
             KV("Keyword", PyStr("0x8020000000000000"))>>)

BaseTemplate ==
    PyDict(<<KV("message", PyStr("An account was successfully logged on. %1")),
             KV("values", PyList(<<PyStr("func_sid")>>))>>)

BaseSystem ==
    PyDict(<<
        KV("Provider", PyDict(<<KV("Name", PyStr("Microsoft-Windows-Security-Auditing")),
                                KV("Guid", PyStr(ValidGuid))>>)),
        KV("EventID", PyDict(<<KV("_text", PyStr("4624")), KV("Qualifiers", PyStr("0"))>>)),
        KV("Version", PyStr("0")),
        KV("Level", PyStr("0")),
        KV("Task", PyStr("12544")),
        KV("Opcode", PyStr("0")),
        KV("Keywords", PyStr("0x8020000000000000")),
        KV("TimeCreated", PyDict(<<KV("SystemTime", PyStr("func_datetime_iso8601"))>>)),
        KV("EventRecordID", PyStr("1234")),
        KV("Correlation",
           PyDict(<<KV("ActivityID", PyStr("{12345678-1234-5678-1234-567812345678}"))>>)),
        KV("Execution", PyDict(<<KV("ProcessID", PyStr("1234")), KV("ThreadID", PyStr("5678"))>>)),
        KV("Channel", PyStr("Security")),
        KV("Computer", PyStr("TestComputer"))>>)

DataEntry(name, type, text) ==
    PyDict(<<KV("Name", PyStr(name)), KV("Type", PyStr(type)), KV("_text", text)>>)

\* the eight entries of the test's EventData.Data
BaseEntries ==
    <<DataEntry("SubjectUserSid", "win:SID", PyStr("func_sid")),
      DataEntry("SubjectUserName", "win:UnicodeString", PyStr("TestUser")),
      DataEntry("SubjectDomainName", "win:UnicodeString", PyStr("DOMAIN")),
      DataEntry("SubjectLogonId", "win:HexInt64", PyStr("0x123456")),
      DataEntry("LogonType", "win:UInt32", PyStr("2")),
      DataEntry("RestrictedAdminMode", "win:Boolean", PyStr("No")),
      DataEntry("VirtualAccount", "win:Boolean", PyStr("No")),
      DataEntry("ElevatedToken", "win:Boolean", PyStr("Yes"))>>

EventDataOf(entries) == PyDict(<<KV("Data", PyList(entries))>>)

\* the same System and entries already resolved: the two dynamic
\* specifications replaced by literal text
ResolvedSystem ==
    SetItem(BaseSystem, "TimeCreated", PyDict(<<KV("SystemTime", PyStr(ClockSeconds))>>))

ResolvedEntries ==
    [i \in 1..Len(BaseEntries) |->
        IF i = 1 THEN SetItem(BaseEntries[i], "_text", PyStr("S-1-5-18")) ELSE BaseEntries[i]]

\* the configuration with the given descriptor, System and EventData
\* (Absent: the Event has no EventData)
ConfigOf(descriptor, system, eventData) ==
    PyDict(<<KV("event_descriptor", descriptor),
             KV("template", BaseTemplate),
             KV("Event", SetOrDel(PyDict(<<KV("xmlns", PyStr(EventNamespace)),
                                            KV("System", system)>>),
                                  "EventData", eventData))>>)

\* descriptor Id and Channel as a number or as numeric text, against the
\* channel System names
ChannelConfigs ==
    { ConfigOf(SetItem(SetItem(BaseDescriptor, "Id", id), "Channel", chan),
               SetOrDel(ResolvedSystem, "Channel", sysChannel),
               EventDataOf(ResolvedEntries)) :
        id \in {PyInt(4624), PyStr("4624"), PyInt(1000), PyInt(4625)},
        chan \in {PyInt(2), PyStr("2"), PyInt(3), PyStr("3"), PyStr("two")},
        sysChannel \in {Absent, PyStr("Security"), PyStr("System"), PyStr("Custom")} }

RequiredFieldNames == {LogonRequiredFields[i] : i \in 1..Len(LogonRequiredFields)}

\* the test's entries without those named in S
WithoutFields(S) == SelectSeq(ResolvedEntries, LAMBDA d : Get(d, "Name").s \notin S)

\* entries a configuration may carry besides the test's: a second entry of
\* a required name with another type, a boolean of any text, one with no Name
ExtraEntries ==
    { DataEntry(name, type, PyStr("x")) :
        name \in {"SubjectUserSid", "LogonType"},
        type \in {"win:SID", "win:UnicodeString", "win:UInt32"} }
    \cup { DataEntry("TestBool", "win:Boolean", PyStr(text)) :
             text \in {"Invalid", "yes", "func_bool", "func_randint 0 1"} }
    \cup { PyDict(<<KV("Type", PyStr("win:SID")), KV("_text", PyStr("x"))>>) }

\* the test's entries with the Type of the i-th replaced
Retyped(i, type) ==
    [j \in 1..Len(ResolvedEntries) |->
        IF j = i THEN SetItem(ResolvedEntries[j], "Type", PyStr(type))
        ELSE ResolvedEntries[j]]

\* the test's entries with one added / one retyped
ChangedEntryLists ==
    { <<x>> \o ResolvedEntries : x \in ExtraEntries }
    \cup { Append(ResolvedEntries, x) : x \in ExtraEntries }
    \cup { Retyped(i, type) : i \in {1, 5, 8}, type \in {"win:SID", "win:UInt32", "win:Boolean"} }

\* the largest number of entries removed at once under an Id other than
\* the number 4624
MaxRemoved == 1

\* EventData under the cataloged Id 4624: every subset of the required
\* fields removed
LogonConfigs ==
    { ConfigOf(BaseDescriptor, ResolvedSystem, eventData) :
        eventData \in {Absent, PyDict(<< >>)}
                      \cup { EventDataOf(entries) :
                               entries \in { WithoutFields(S) : S \in SUBSET RequiredFieldNames }
                                           \cup ChangedEntryLists } }

\* EventData under the Id 4624 given as numeric text, a cataloged Id without
\* template and an Id outside the catalog
OtherIdConfigs ==
    { ConfigOf(SetItem(BaseDescriptor, "Id", id), ResolvedSystem, eventData) :
        id \in {PyStr("4624"), PyInt(4625), PyInt(1000)},
        eventData \in {Absent, PyDict(<< >>)}
                      \cup { EventDataOf(entries) :
                               entries \in { WithoutFields(S) :
                                             S \in {T \in SUBSET RequiredFieldNames :
                                                      Cardinality(T) <= MaxRemoved} }
                                           \cup ChangedEntryLists } }

\* System values: numbers as text, out of range or not numeric, and
\* literal or dynamic field specifications
SystemConfigs ==
    { ConfigOf(SetItem(BaseDescriptor, "Id", id),
               SetItem(SetOrDel(SetOrDel(BaseSystem, "Version", version), "Level", level),
                       "Computer", computer),
               EventDataOf(BaseEntries)) :
        id \in {PyInt(4624), PyInt(1000)},
        version \in {Absent, PyStr("255"), PyInt(256), PyStr("abc"), PyInt(0 - 1)},
        level \in {Absent, PyStr("15"), PyStr("16"), PyStr("high")},
        computer \in {PyStr("TestComputer"), PyStr("Test Computer"), PyStr(" padded "),
                      PyStr("func_hostname"), PyStr("func_guid 1"), PyStr("func_nosuch"),
                      PyInt(7)} }

\* a descriptor whose fields are not numeric, or out of range
DescriptorConfigs ==
    { ConfigOf(SetItem(BaseDescriptor, field, value), ResolvedSystem,
               EventDataOf(ResolvedEntries)) :
        field \in {"Version", "Level", "Opcode", "Task", "Keyword"},
        value \in {PyStr("x"), PyStr("7"), PyInt(16), PyInt(241), PyInt(0 - 1), PyNone} }

\* the largest number of entries of an EventData.Data made of free-form
\* entries
MaxData == 2

\* EventData of an Id outside the catalog: up to MaxData entries, each with
\* its keys in an order of its own, with or without _text, an attribute
\* value or a text that begins with the marker
DataConfigs ==
    LET entries ==
            { PyDict(<<KV("Name", PyStr("func_hostname")),
                       KV("Type", PyStr("win:UnicodeString")),
                       KV("_text", PyStr("func_sid"))>>),
              PyDict(<<KV("_text", PyStr("TestUser")), KV("Type", PyStr("win:UInt32")),
                       KV("Name", PyStr("User"))>>),
              PyDict(<<KV("Name", PyStr("NoText"))>>),
              PyDict(<<KV("Name", PyStr("Host")), KV("_text", PyStr("func_hostname"))>>) }
    IN  { ConfigOf(SetItem(BaseDescriptor, "Id", PyInt(1000)), ResolvedSystem,
                   EventDataOf(data)) :
            data \in UNION { [1..n -> entries] : n \in 0..MaxData } }

\* RenderingInfo mappings: Culture absent, well formed, followed by a line
\* break, malformed or not a text; Keywords absent, not a mapping, without
\* Keyword, with a Keyword that is no list, or with a list of up to one entry
\* more than the maximum
RenderingInfos ==
    { SetOrDel(SetOrDel(PyDict(<< >>), "Culture", culture), "Keywords", keywords) :
        culture \in {Absent, PyStr("en-US"), PyStr("de-DE"), PyStr("en-US\n"),
                     PyStr("en-US\n\n"), PyStr("invalid"), PyStr("EN-us"), PyStr("en-USx"),
                     PyStr("en_US"), PyStr("e1-US"), PyStr(""), PyInt(5)},
        keywords \in {Absent, PyDict(<< >>), PyStr("Keyword"), PyList(<< >>),
                      PyDict(<<KV("Keyword", PyStr("Audit Success"))>>)}
                     \cup { PyDict(<<KV("Keyword", PyList([i \in 1..n |-> PyStr("Audit Success")]))>>) :
                              n \in {0, 1, MaxRenderingKeywords, MaxRenderingKeywords + 1} } }

\* the resolved configuration with a RenderingInfo in its Event
RenderingConfigs ==
    { SetItem(config, "Event", SetItem(Get(config, "Event"), "RenderingInfo", rendering)) :
        config \in {ConfigOf(BaseDescriptor, ResolvedSystem, EventDataOf(ResolvedEntries))},
        rendering \in RenderingInfos }

\* the ways a configuration is made to fail one check of
\* validate_windows_event_config, in the order they are applied: inside
\* System, the descriptor, the rest of the Event, then the top-level fields
Violations ==
    <<"NoProvider", "NoEventID", "NoComputer", "ProviderGuid", "Qualifiers", "ActivityID",
      "ThreadID", "Keywords", "Version", "Level", "DescriptorLevel", "Channel",
      "LogonField", "Culture", "Boolean", "NoSystem", "TemplateText", "NoTemplate",
      "NoDescriptor">>

\* the configuration made to fail the check v
Violate(config, v) ==
    LET event == Get(config, "Event")
        system == Get(event, "System")
        entries == Get(Get(event, "EventData"), "Data").elems
        InEvent(key, value) == SetItem(config, "Event", SetOrDel(event, key, value))
        InSystem(key, value) == InEvent("System", SetOrDel(system, key, value))
        InDescriptor(key, value) ==
            SetItem(config, "event_descriptor",
                    SetItem(Get(config, "event_descriptor"), key, value))
    IN  CASE v = "NoProvider" -> InSystem("Provider", Absent)
          [] v = "NoEventID" -> InSystem("EventID", Absent)
          [] v = "NoComputer" -> InSystem("Computer", Absent)
          [] v = "ProviderGuid" ->
                InSystem("Provider", PyDict(<<KV("Name", PyStr("Microsoft-Windows-Security-Auditing")),
                                              KV("Guid", PyStr("not-a-guid"))>>))
          [] v = "Qualifiers" ->
                InSystem("EventID", PyDict(<<KV("_text", PyStr("4624")),
                                             KV("Qualifiers", PyStr("-1"))>>))
          [] v = "ActivityID" ->
                InSystem("Correlation", PyDict(<<KV("ActivityID", PyStr("not-a-guid"))>>))
          [] v = "ThreadID" -> InSystem("Execution", PyDict(<<KV("ProcessID", PyStr("1234"))>>))
          [] v = "Keywords" -> InSystem("Keywords", PyStr("0x"))
          [] v = "Version" -> InSystem("Version", PyInt(256))
          [] v = "Level" -> InSystem("Level", PyStr("16"))
          [] v = "DescriptorLevel" -> InDescriptor("Level", PyInt(16))
          [] v = "Channel" -> InDescriptor("Channel", PyInt(1))
          [] v = "LogonField" ->
                InEvent("EventData",
                        EventDataOf(SelectSeq(entries,
                                              LAMBDA d : Get(d, "Name").s # "SubjectUserSid")))
          [] v = "Culture" -> InEvent("RenderingInfo", PyDict(<<KV("Culture", PyStr("invalid"))>>))
          [] v = "Boolean" ->
                InEvent("EventData",
                        EventDataOf(Append(entries,
                                           DataEntry("TestBool", "win:Boolean", PyStr("Invalid")))))
          [] v = "NoSystem" -> InEvent("System", Absent)
          [] v = "TemplateText" -> SetItem(config, "template", PyStr("An account was logged on"))
          [] v = "NoTemplate" -> DelItem(config, "template")
          [] v = "NoDescriptor" -> DelItem(config, "event_descriptor")

\* the configuration made to fail the checks of S that Violations lists from
\* position i on
RECURSIVE ViolateFrom(_, _, _)
ViolateFrom(config, S, i) ==
    IF i > Len(Violations) THEN config
    ELSE ViolateFrom(IF Violations[i] \in S THEN Violate(config, Violations[i]) ELSE config,
                     S, i + 1)

\* the largest number of checks one configuration is made to fail
MaxViolations == 3

\* the resolved configuration, with a RenderingInfo, made to fail up to
\* MaxViolations checks at once
ViolatingConfigs ==
    { ViolateFrom(SetItem(config, "Event",
                          SetItem(Get(config, "Event"), "RenderingInfo",
                                  PyDict(<<KV("Culture", PyStr("en-US"))>>))),
                  S, 1) :
        config \in {ConfigOf(BaseDescriptor, ResolvedSystem, EventDataOf(ResolvedEntries))},
        S \in {T \in SUBSET {Violations[i] : i \in 1..Len(Violations)} :
                 Cardinality(T) <= MaxViolations} }

Configs ==
    ViolatingConfigs \cup DataConfigs \cup ChannelConfigs \cup LogonConfigs \cup OtherIdConfigs \cup SystemConfigs
        \cup DescriptorConfigs \cup RenderingConfigs

RECURSIVE ConcatAll(_)
ConcatAll(seqs) == IF seqs = << >> THEN << >> ELSE Head(seqs) \o ConcatAll(Tail(seqs))

\* the values get_windows_event_log passes to get_random_value, in order:
\* the values of System and of its attributes, then the _text of the entries
ResolvedValues(config) ==
    LET event == Get(config, "Event")
        sys   == Get(event, "System").items
        OfItem(it) == IF IsDict(it.v) THEN [j \in 1..Len(it.v.items) |-> it.v.items[j].v]
                      ELSE <<it.v>>
        data  == IF Has(event, "EventData") /\ Has(Get(event, "EventData"), "Data")
                 THEN Get(Get(event, "EventData"), "Data").elems ELSE << >>
        texts == SelectSeq(data, LAMBDA d : Has(d, "_text"))
    IN  ConcatAll([i \in 1..Len(sys) |-> OfItem(sys[i])])
        \o [i \in 1..Len(texts) |-> Get(texts[i], "_text")]

\* the samples of the random source and the clock a request can read: one
\* per generator call; a request that fails validation makes none
DrawStreams(config) ==
    IF Raised(ValidateWindowsEventConfig(config)) THEN {<< >>}
    ELSE [1..Len(SelectSeq(ResolvedValues(config), CallsGenerator)) -> Env]

---------------------------------------------------------------------------
(* The inputs of the other operations *)

\* field specifications: a first word, literal or marker-prefixed, with
\* arguments, between optional blanks; the empty and the blank text; a number
FieldSpecs ==
    LET SpecHeads ==
            {"TestComputer", "DOMAIN", "func", "func_", "func_nosuch", "func_guid",
             "func_sid", "func_hostname", "func_datetime", "func_datetime_iso8601",
             "func_randint", "func_randip", "func_bool"}
        SpecArgs == {<< >>, <<"1">>, <<"1", "10">>, <<"Name">>}
    IN  { PyStr(lead \o Join(<<head>> \o args, sep) \o trail) :
            head \in SpecHeads, args \in SpecArgs,
            lead \in {"", " "}, trail \in {"", " "}, sep \in {" ", "\t"} }
        \cup {PyStr(""), PyStr("  "), PyInt(42), PyBool(TRUE)}

\* texts for validate_guid: canonical GUIDs, and one changed in one place,
\* shortened by one character or lengthened at either end
GuidInputs ==
    LET ReplaceAt(s, i, c) == SubSeq(s, 1, i - 1) \o c \o SubSeq(s, i + 1, Len(s))
        RemoveAt(s, i) == SubSeq(s, 1, i - 1) \o SubSeq(s, i + 1, Len(s))
        good == {ValidGuid, "{54849625-5478-4994-a5ba-3e3b0328c30d}",
                 "{00000000-0000-0000-0000-000000000000}"}
    IN  good
        \cup { ReplaceAt(ValidGuid, i, c) : i \in 1..Len(ValidGuid),
                                            c \in {"g", "-", "0", "{", "}", "\n"} }
        \cup { RemoveAt(ValidGuid, i) : i \in 1..Len(ValidGuid) }
        \cup { g \o c : g \in good, c \in {"\n", " ", "}", "0", "\n\n", "\r\n"} }
        \cup { c \o g : g \in good, c \in {"\n", " ", "{", "0"} }
        \cup {""}

\* the _text of a win:Boolean entry
BooleanTexts ==
    { PyStr(t) : t \in {"Yes", "no", "TRUE", "False", "true", "0", "1", "2", "y", "",
                        "Invalid", " yes", "yes ", "func_bool", "FUNC_BOOL", "Func_Bool",
                        "func_bool 1", "func_randint 0 1", "func_guid", "func_"} }
    \cup {Absent, PyBool(TRUE), PyBool(FALSE), PyInt(0), PyInt(1), PyInt(2), PyNone}

\* one Data entry with or without Name, Type and _text
TypedEntries ==
    { SetOrDel(SetOrDel(SetOrDel(PyDict(<< >>), "Name", name), "Type", type), "_text", text) :
        name \in {Absent, PyStr("TestBool")},
        type \in {Absent, PyStr("win:Boolean"), PyStr("win:UInt32")},
        text \in BooleanTexts }

\* EventData for validate_event_data: no Data, Data that is no list, one
\* entry of any kind, and such an entry after a valid one
EventDataInputs ==
    {PyDict(<< >>), PyDict(<<KV("Data", PyStr("x"))>>), EventDataOf(<< >>),
     EventDataOf(<<PyStr("x")>>)}
    \cup { EventDataOf(<<d>>) : d \in TypedEntries }
    \cup { EventDataOf(<<BaseEntries[8], d>>) : d \in TypedEntries }

\* descriptors for validate_event_descriptor: Level, Opcode and Task at and
\* beyond the ends of their ranges, over the test's descriptor with one other
\* field at or beyond the end of its type, not numeric, or left out
DescriptorInputs ==
    LET others ==
            {BaseDescriptor, DelItem(BaseDescriptor, "Id")}
            \cup { SetItem(BaseDescriptor, "Id", v) :
                     v \in {PyInt(65535), PyInt(65536), PyInt(0 - 1), PyStr("x")} }
            \cup { SetItem(BaseDescriptor, "Version", v) :
                     v \in {PyInt(255), PyInt(256), PyNone} }
            \cup { SetItem(BaseDescriptor, "Channel", v) : v \in {PyInt(255), PyInt(256)} }
            \cup { SetItem(BaseDescriptor, "Keyword", v) :
                     v \in {PyStr("0xFFFFFFFFFFFFFFFF"), PyStr("0x10000000000000000"),
                            PyStr("-0x1"), PyStr("zz"), PyInt(0), PyInt(0 - 1)} }
    IN  { SetItem(SetItem(SetItem(d, "Level", level), "Opcode", opcode), "Task", task) :
            d \in others,
            level \in {PyInt(0 - 1), PyInt(0), PyInt(15), PyInt(16), PyStr(" 15 ")},
            opcode \in {PyInt(0 - 1), PyInt(240), PyInt(241)},
            task \in {PyInt(0 - 1), PyInt(0), PyInt(12544)} }

---------------------------------------------------------------------------
(* The requests.  Every operation is synchronous and request-scoped: the  *)
(* state is the request being served, its input and its outcome; nothing  *)
(* is kept from one request to the next.                                  *)

NoRequest == "none"

Init ==
    /\ op = NoRequest
    /\ arg = PyNone
    /\ out = Ok

\* get_random_value(spec), the generator reading the sample e
CallGetRandomValue ==
    /\ op = NoRequest
    /\ \E spec \in FieldSpecs, e \in Env :
           /\ op' = "get_random_value"
           /\ arg' = [spec |-> spec, env |-> e]
           /\ out' = GetRandomValue(spec, e)

\* validate_guid(guid)
CallValidateGuid ==
    /\ op = NoRequest
    /\ \E guid \in GuidInputs :
           /\ op' = "validate_guid"
           /\ arg' = PyStr(guid)
           /\ out' = Ret(PyBool(ValidateGuid(guid)))

\* validate_event_data(event_data)
CallValidateEventData ==
    /\ op = NoRequest
    /\ \E event_data \in EventDataInputs :
           /\ op' = "validate_event_data"
           /\ arg' = event_data
           /\ out' = ValidateEventData(event_data)

\* validate_event_descriptor(descriptor)
CallValidateEventDescriptor ==
    /\ op = NoRequest
    /\ \E descriptor \in DescriptorInputs :
           /\ op' = "validate_event_descriptor"
           /\ arg' = descriptor
           /\ out' = ValidateEventDescriptor(descriptor)

\* validate_rendering_info(rendering)
CallValidateRenderingInfo ==
    /\ op = NoRequest
    /\ \E rendering \in RenderingInfos :
           /\ op' = "validate_rendering_info"
           /\ arg' = rendering
           /\ out' = ValidateRenderingInfo(rendering)

\* validate_windows_event_config(config)
CallValidateWindowsEventConfig ==
    /\ op = NoRequest
    /\ \E config \in Configs :
           /\ op' = "validate_windows_event_config"
           /\ arg' = [config |-> config]
           /\ out' = ValidateWindowsEventConfig(config)

\* get_windows_event_log(config)
CallGetWindowsEventLog ==
    /\ op = NoRequest
    /\ \E config \in Configs :
           \E draws \in DrawStreams(config) :
               /\ op' = "get_windows_event_log"
               /\ arg' = [config |-> config, draws |-> draws]
               /\ out' = GetWindowsEventLog(config, draws)

\* a configuration whose records need no generator: no System value, System
\* attribute value or EventData _text begins with the marker
AlreadyResolved(config) ==
    \A i \in 1..Len(ResolvedValues(config)) :
        IsStr(ResolvedValues(config)[i]) => ~StartsWith(ResolvedValues(config)[i].s, Marker)

\* the test's valid_config with the largest Version and Level; its
\* TimeCreated and its entries still name generators
UnresolvedConfig ==
    ConfigOf(BaseDescriptor,
             SetItem(SetOrDel(SetOrDel(BaseSystem, "Version", PyStr("255")), "Level", PyStr("15")),
                     "Computer", PyStr("TestComputer")),
             EventDataOf(BaseEntries))

\* get_windows_event_log(config) called a second time, right after the first
\* call, on the same configuration: UnresolvedConfig, or one that validation
\* accepts and that is already resolved.  The second call reads samples of
\* its own
CallGetWindowsEventLogAgain ==
    /\ op = "get_windows_event_log"
    /\ \/ arg.config = UnresolvedConfig
       \/ /\ Returned(ValidateWindowsEventConfig(arg.config))
          /\ AlreadyResolved(arg.config)
    /\ \E draws \in DrawStreams(arg.config) :
           /\ op' = "get_windows_event_log_again"
           /\ arg' = [config |-> arg.config, draws |-> draws, first |-> out]
           /\ out' = GetWindowsEventLog(arg.config, draws)

\* the caller takes the outcome; the request's state is discarded
Complete ==
    /\ op # NoRequest
    /\ op' = NoRequest
    /\ arg' = PyNone
    /\ out' = Ok

Next ==
    \/ CallGetRandomValue
    \/ CallValidateGuid
    \/ CallValidateEventData
    \/ CallValidateEventDescriptor
    \/ CallValidateRenderingInfo
    \/ CallValidateWindowsEventConfig
    \/ CallGetWindowsEventLog
    \/ CallGetWindowsEventLogAgain
    \/ Complete

Spec == Init /\ [][Next]_vars

---------------------------------------------------------------------------
(* The properties *)

\* C1: every configuration that validate_windows_event_config accepts is
\* serialized: get_windows_event_log raises nothing and returns text whose
\* first line is the XML declaration, followed by the Event element with the
\* namespace, and closed by </Event>
C1_AcceptedConfigIsSerialized ==
    (op = "get_windows_event_log" /\ Returned(ValidateWindowsEventConfig(arg.config)))
        => /\ Returned(out)
           /\ StartsWith(out.val.s, XmlDeclaration \o "\n" \o EventOpen \o "\n")
           /\ EndsWith(out.val.s, "\n" \o EventClose)

\* C2: for every string that does not begin with the marker func_,
\* get_random_value returns exactly that string and raises nothing
C2_UnmarkedSpecIsReturnedUnchanged ==
    (op = "get_random_value" /\ IsStr(arg.spec) /\ ~StartsWith(arg.spec.s, Marker))
        => out = Ret(arg.spec)

\* C3: a specification whose first token is the marker followed by a
\* capability name c is resolved by the generator named exactly c, called
\* with the remaining tokens: whenever that call returns, get_random_value
\* returns its result (randint and randip are the module's randint and
\* randip, datetime_iso8601 the seconds-precision generator)
C3_CapabilitySelectsItsGenerator ==
    \A c \in {"guid", "sid", "hostname", "datetime", "datetime_iso8601", "randint", "randip"} :
        LET generator == IF c \in {"randint", "randip"} THEN c ELSE Marker \o c
            tokens == Split(arg.spec.s)
        IN  (/\ op = "get_random_value"
             /\ IsStr(arg.spec)
             /\ tokens # << >>
             /\ tokens[1] = Marker \o c
             /\ Returned(CallModuleFunc(generator, Tail(tokens), arg.env)))
                => out = CallModuleFunc(generator, Tail(tokens), arg.env)

\* C4: whenever the resolution of a marker-prefixed specification fails,
\* get_random_value returns the specification unchanged and raises nothing,
\* and get_windows_event_log on an accepted configuration whose Computer is
\* such a specification still returns the record
C4_FailedResolutionFallsBackToText ==
    /\ (/\ op = "get_random_value"
        /\ IsStr(arg.spec)
        /\ StartsWith(arg.spec.s, Marker)
        /\ Raised(ExecFunctionStr(arg.spec.s, arg.env)))
           => out = Ret(arg.spec)
    /\ (/\ op = "get_windows_event_log"
        /\ Returned(ValidateWindowsEventConfig(arg.config))
        /\ LET computer == Get(Get(Get(arg.config, "Event"), "System"), "Computer")
           IN  /\ IsStr(computer)
               /\ StartsWith(computer.s, Marker)
               /\ \A e \in Env : Raised(ExecFunctionStr(computer.s, e)))
           => Returned(out)

\* C5: every failure of validate_windows_event_config is a
\* WindowsEventValidationError, never another kind of exception
C5_RejectionIsValidationError ==
    (op = "validate_windows_event_config" /\ Raised(out)) => out.exc = ValidationError

\* C6: for a configuration that passes the System and descriptor checks and
\* whose System.Channel is a standard channel name, validation fails with
\* the channel-mismatch error if and only if the Channel the Descriptor
\* Validator parsed (from a number or from numeric text) differs from that
\* channel's id; with System.Channel absent or not standard it never does
C6_ChannelMismatchIffParsedChannelDiffers ==
    LET system == Get(Get(arg.config, "Event"), "System")
        event_desc == ValidateEventDescriptor(Get(arg.config, "event_descriptor"))
        mismatch == Raised(out) /\ out.exc = ValidationError /\ out.msg = "Channel ID mismatch"
    IN  (/\ op = "validate_windows_event_config"
         /\ Returned(ValidateStructure(arg.config))
         /\ Returned(ValidateSystemProperties(system))
         /\ Returned(event_desc))
            => IF /\ Has(system, "Channel")
                  /\ IsStr(Get(system, "Channel"))
                  /\ Get(system, "Channel").s \in DOMAIN StandardChannels
               THEN mismatch <=>
                        event_desc.val.Channel # StandardChannels[Get(system, "Channel").s]
               ELSE ~mismatch

\* C7: for a configuration of record type 4624 (descriptor Id the number
\* 4624) that passes every check made before the security template's, whose
\* EventData.Data entries all carry a Name and lack the non-empty set S of
\* required field names, validation fails with the security validation error
\* for 4624 listing exactly the names of S, in the template's order
C7_MissingFieldsListedExactly ==
    LET event == Get(arg.config, "Event")
        entries == Get(Get(event, "EventData"), "Data").elems
        present == {Get(entries[i], "Name") : i \in 1..Len(entries)}
        S == {f \in RequiredFieldNames : PyStr(f) \notin present}
    IN  (/\ op = "validate_windows_event_config"
         /\ Returned(ValidateStructure(arg.config))
         /\ Returned(ValidateSystemProperties(Get(event, "System")))
         /\ Returned(ValidateEventDescriptor(Get(arg.config, "event_descriptor")))
         /\ Get(Get(arg.config, "event_descriptor"), "Id") = PyInt(LOGON_SUCCESS)
         /\ Returned(ValidateChannel(arg.config))
         /\ Has(event, "EventData")
         /\ Has(Get(event, "EventData"), "Data")
         /\ \A i \in 1..Len(entries) : Has(entries[i], "Name")
         /\ S # {})
            => out = Raise(ValidationError,
                           "Security Event validation failed: "
                               \o "Missing required fields for Security Event",
                           <<LOGON_SUCCESS, SelectSeq(LogonRequiredFields, LAMBDA f : f \in S)>>)

\* C7 happens: validation of the 4624 configuration without SubjectUserName
\* and ElevatedToken has failed listing these two, in this order
C7_TwoFieldsRemoved ==
    /\ op = "validate_windows_event_config"
    /\ arg.config = ConfigOf(BaseDescriptor, ResolvedSystem,
                             EventDataOf(WithoutFields({"ElevatedToken", "SubjectUserName"})))
    /\ Raised(out)
    /\ out.args = <<LOGON_SUCCESS, <<"SubjectUserName", "ElevatedToken">>>>

\* C8: after validation succeeds for a configuration of the templated record
\* type 4624, every entry of EventData.Data whose Name has a declared type
\* has that Type, also when several entries carry the same Name
C8_EveryEntryHasDeclaredType ==
    LET entries == Get(Get(Get(arg.config, "Event"), "EventData"), "Data").elems
    IN  (/\ op = "validate_windows_event_config"
         /\ Returned(out)
         /\ Get(Get(arg.config, "event_descriptor"), "Id") = PyInt(LOGON_SUCCESS))
            => \A i \in 1..Len(entries) :
                   Get(entries[i], "Name").s \in DOMAIN LogonFieldTypes
                       => StrEq(GetOrNone(entries[i], "Type"),
                                LogonFieldTypes[Get(entries[i], "Name").s])

\* C9 as stated: an entry of Type win:Boolean passes validate_event_data if
\* and only if its _text is, case-insensitively, one of yes/no/true/false/0/1
\* or begins with the marker func_; any other text, an absent _text included,
\* fails with the 'Invalid boolean value' error naming the entry
C9_BooleanOrAnyMarkedText ==
    LET entries == Get(arg, "Data").elems
        TextOf(d) == IF Has(d, "_text") THEN PyStrOf(Get(d, "_text")) ELSE ""
        Passes(d) ==
            \/ ~StrEq(GetOrNone(d, "Type"), "win:Boolean")
            \/ Lower(TextOf(d)) \in {"yes", "no", "true", "false", "0", "1"}
            \/ StartsWith(TextOf(d), Marker)
        failing == {i \in 1..Len(entries) : ~Passes(entries[i])}
    IN  (/\ op = "validate_event_data"
         /\ Has(arg, "Data")
         /\ IsList(Get(arg, "Data"))
         /\ \A i \in 1..Len(entries) : IsDict(entries[i]) /\ Has(entries[i], "Name"))
            => IF failing = {} THEN Returned(out)
               ELSE LET d == entries[CHOOSE i \in failing : \A j \in failing : i <= j]
                    IN  out = Raise(ValidationError, "Invalid boolean value",
                                    <<Get(d, "Name"), Lower(TextOf(d))>>)

\* C9: an entry of Type win:Boolean passes validate_event_data if and only
\* if the text of its _text (the empty text when _text is absent) is,
\* case-insensitively, one of yes/no/true/false/0/1 or exactly func_bool; any
\* other text fails with the 'Invalid boolean value' error naming the first
\* such entry and its lower-cased text
C9_BooleanOrFuncBool ==
    LET entries == Get(arg, "Data").elems
        TextOf(d) == IF Has(d, "_text") THEN PyStrOf(Get(d, "_text")) ELSE ""
        Passes(d) ==
            \/ ~StrEq(GetOrNone(d, "Type"), "win:Boolean")
            \/ Lower(TextOf(d)) \in {"yes", "no", "true", "false", "0", "1"}
            \/ Lower(TextOf(d)) = "func_bool"
        failing == {i \in 1..Len(entries) : ~Passes(entries[i])}
    IN  (/\ op = "validate_event_data"
         /\ Has(arg, "Data")
         /\ IsList(Get(arg, "Data"))
         /\ \A i \in 1..Len(entries) : IsDict(entries[i]) /\ Has(entries[i], "Name"))
            => IF failing = {} THEN Returned(out)
               ELSE LET d == entries[CHOOSE i \in failing : \A j \in failing : i <= j]
                    IN  out = Raise(ValidationError, "Invalid boolean value",
                                    <<Get(d, "Name"), Lower(TextOf(d))>>)

\* C9 happens: validate_event_data has accepted a win:Boolean entry holding
\* FUNC_BOOL that follows a valid entry
C9_FuncBoolAccepted ==
    /\ op = "validate_event_data"
    /\ arg = EventDataOf(<<BaseEntries[8],
                           DataEntry("TestBool", "win:Boolean", PyStr("FUNC_BOOL"))>>)
    /\ Returned(out)

\* C10: validate_guid(s) is true if and only if s is exactly an opening
\* brace, 8-4-4-4-12 hexadecimal digits separated by hyphens and a closing
\* brace, with no character before or after
C10_GuidIffCanonical ==
    (op = "validate_guid")
        => (out.val.b <=> (Len(arg.s) = Len(GuidClasses) /\ MatchesClasses(arg.s, GuidClasses)))

\* C11: for a descriptor that supplies all seven fields with values that
\* denote integers, validate_event_descriptor returns the EventDescriptor if
\* and only if 0 <= Level <= 15, 0 <= Opcode <= 240 and Task >= 0; otherwise
\* it returns nothing and raises the validation error of the first violated
\* of Level, Opcode, Task, with the field's range and the offending value
C11_DescriptorReturnedIffInRange ==
    LET ints == DescriptorArguments(arg)
        level == ints[4].val
        opcode == ints[5].val
        task == ints[6].val
    IN  (/\ op = "validate_event_descriptor"
         /\ \A f \in {"Id", "Version", "Channel", "Level", "Opcode", "Task", "Keyword"} :
                Has(arg, f)
         /\ \A i \in 1..7 : Returned(ints[i]))
            => IF level < 0 \/ level > 15
               THEN out = Raise(ValidationError, "Level must be between 0 and 15", <<level>>)
               ELSE IF opcode < 0 \/ opcode > 240
               THEN out = Raise(ValidationError, "Opcode must be between 0 and 240",
                                <<opcode>>)
               ELSE IF task < 0
               THEN out = Raise(ValidationError, "Task must be non-negative", <<task>>)
               ELSE /\ Returned(out)
                    /\ out.val.Level = level /\ out.val.Opcode = opcode /\ out.val.Task = task

\* C11 happens: a descriptor with Level 16, Opcode 241 and Task -1 has been
\* rejected for its Level
C11_LevelReportedFirst ==
    /\ op = "validate_event_descriptor"
    /\ Get(arg, "Level") = PyInt(16)
    /\ Get(arg, "Opcode") = PyInt(241)
    /\ Get(arg, "Task") = PyInt(0 - 1)
    /\ out = Raise(ValidationError, "Level must be between 0 and 15", <<16>>)

\* C12: every EventDescriptor validate_event_descriptor returns has Id in
\* 0..65535, Version in 0..255, Channel in 0..255, Level in 0..15, Opcode in
\* 0..240, Task >= 0 and Keyword in 0..2^64-1 (at most 16 hexadecimal digits,
\* not negative)
C12_ReturnedDescriptorInRanges ==
    (op = "validate_event_descriptor" /\ Returned(out))
        => /\ out.val.Id \in 0..65535
           /\ out.val.Version \in 0..255
           /\ out.val.Channel \in 0..255
           /\ out.val.Level \in 0..15
           /\ out.val.Opcode \in 0..240
           /\ out.val.Task >= 0
           /\ ~out.val.Keyword.neg
           /\ Len(out.val.Keyword.hex) <= 16

\* C13: the text get_windows_event_log returns ends with the EventData
\* section made of exactly one Data element per entry of EventData.Data, in
\* the entries' order; each element has the entry's keys other than _text as
\* attributes, in the entry's key order, with the values copied literally,
\* and as text what get_random_value returns for _text (empty without _text)
C13_OneDataElementPerEntry ==
    LET event == Get(arg.config, "Event")
        entries == Get(Get(event, "EventData"), "Data").elems
        HasText(d) == Has(d, "_text")
        Generated(d) == HasText(d) /\ CallsGenerator(Get(d, "_text"))
        values == ResolvedValues(arg.config)
        system == SubSeq(values, 1, Len(values) - Len(SelectSeq(entries, HasText)))
        Before(i) == Len(SelectSeq(system, CallsGenerator))
                         + Len(SelectSeq(SubSeq(entries, 1, i - 1), Generated))
        Attrs(d) == LET keys == SelectSeq(d.items, LAMBDA it : it.k # "_text")
                    IN  [j \in 1..Len(keys) |->
                            keys[j].k \o "=\"" \o PyStrOf(keys[j].v) \o "\""]
        Text(i) == IF HasText(entries[i])
                   THEN PyStrOf(GetRandomValue(Get(entries[i], "_text"),
                                               DrawAt(arg.draws, Before(i))).val)
                   ELSE ""
        Element(i) == IF Attrs(entries[i]) = << >>
                      THEN "    <Data>" \o Text(i) \o "</Data>"
                      ELSE "    <Data " \o Join(Attrs(entries[i]), " ") \o ">"
                               \o Text(i) \o "</Data>"
    IN  (/\ op = "get_windows_event_log"
         /\ Returned(out)
         /\ Has(event, "EventData"))
            => EndsWith(out.val.s,
                        "\n" \o Join(<<"  </System>", "  <EventData>">>
                                         \o [i \in 1..Len(entries) |-> Element(i)]
                                         \o <<"  </EventData>", "</Event>">>, "\n"))

\* C13 happens: a record has been returned for an EventData of two entries,
\* the first with an attribute value and a text that begin with the marker,
\* the second without _text
C13_MarkedAttributeKeptLiteral ==
    LET entries == Get(Get(Get(arg.config, "Event"), "EventData"), "Data").elems
    IN  /\ op = "get_windows_event_log"
        /\ Returned(out)
        /\ Has(Get(arg.config, "Event"), "EventData")
        /\ Len(entries) = 2
        /\ Get(entries[1], "Name") = PyStr("func_hostname")
        /\ ~Has(entries[2], "_text")
        /\ Len(arg.draws) = 1

\* C14: for a configuration that validation accepts and in which no System
\* value, System attribute value or EventData _text begins with the marker,
\* two successive calls of get_windows_event_log return identical text
C14_ResolvedConfigSerializesIdentically ==
    (/\ op = "get_windows_event_log_again"
     /\ Returned(ValidateWindowsEventConfig(arg.config))
     /\ AlreadyResolved(arg.config))
        => /\ Returned(arg.first)
           /\ Returned(out)
           /\ out.val = arg.first.val

\* C15: validate_rendering_info accepts a RenderingInfo mapping if and only
\* if Culture is present and consists of exactly two lowercase letters, a
\* hyphen and two uppercase letters, and Keywords is absent or a mapping with
\* a Keyword list of at most 64 entries; a Culture text of another form fails
\* with 'Invalid Culture format'; and validate_windows_event_config, once the
\* checks before RenderingInfo pass, fails as validate_rendering_info does
C15_RenderingInfoAcceptedIffWellFormed ==
    LET upper == DOMAIN LowerOfUpper
        lower == {LowerOfUpper[c] : c \in upper}
        CultureForm(text) ==
            /\ Len(text) = 5
            /\ Ch(text, 1) \in lower /\ Ch(text, 2) \in lower
            /\ Ch(text, 3) = "-"
            /\ Ch(text, 4) \in upper /\ Ch(text, 5) \in upper
        KeywordsForm(rendering) ==
            \/ ~Has(rendering, "Keywords")
            \/ /\ IsDict(Get(rendering, "Keywords"))
               /\ Has(Get(rendering, "Keywords"), "Keyword")
               /\ IsList(Get(Get(rendering, "Keywords"), "Keyword"))
               /\ Len(Get(Get(rendering, "Keywords"), "Keyword").elems) <= 64
        WellFormed(rendering) ==
            /\ Has(rendering, "Culture")
            /\ IsStr(Get(rendering, "Culture"))
            /\ CultureForm(Get(rendering, "Culture").s)
            /\ KeywordsForm(rendering)
        InConfig(config) == Get(Get(config, "Event"), "RenderingInfo")
    IN  /\ op = "validate_rendering_info" =>
            /\ Returned(out) <=> WellFormed(arg)
            /\ (/\ Has(arg, "Culture") /\ IsStr(Get(arg, "Culture"))
                /\ ~CultureForm(Get(arg, "Culture").s))
                   => /\ Raised(out) /\ out.exc = ValidationError
                      /\ out.msg = "Invalid Culture format"
        /\ (/\ op = "validate_windows_event_config"
            /\ Has(Get(arg.config, "Event"), "RenderingInfo")
            /\ Returned(ValidateEventSpecific(arg.config)))
               => /\ Returned(out) => WellFormed(InConfig(arg.config))
                  /\ ~WellFormed(InConfig(arg.config))
                         => out = ValidateRenderingInfo(InConfig(arg.config))

\* C16: for a configuration with the three top-level keys, a well-formed
\* template and a System, if System lacks any of Provider, EventID and
\* Computer then validation fails with 'Missing required System elements',
\* listing every absent one of the three and only those, whatever other check
\* of System the configuration violates
C16_MissingSystemElementsListed ==
    LET config == arg.config
        system == Get(Get(config, "Event"), "System")
        absent == SelectSeq(<<"Provider", "EventID", "Computer">>, LAMBDA f : ~Has(system, f))
    IN  (/\ op = "validate_windows_event_config"
         /\ Has(config, "event_descriptor") /\ Has(config, "template") /\ Has(config, "Event")
         /\ IsDict(Get(config, "template"))
         /\ Has(Get(config, "template"), "message") /\ Has(Get(config, "template"), "values")
         /\ Has(Get(config, "Event"), "System")
         /\ absent # << >>)
            => out = Raise(ValidationError, "Missing required System elements", absent)

\* a configuration without Provider and Computer whose System.Version is 256
\* is rejected for the two missing elements
C16_TwoAbsentBeforeVersion ==
    /\ op = "validate_windows_event_config"
    /\ Has(arg.config, "Event") /\ Has(Get(arg.config, "Event"), "System")
    /\ LET system == Get(Get(arg.config, "Event"), "System")
       IN  /\ ~Has(system, "Provider") /\ ~Has(system, "Computer") /\ Has(system, "EventID")
           /\ Has(system, "Version") /\ Get(system, "Version") = PyInt(256)
    /\ Raised(out) /\ out.msg = "Missing required System elements"
    /\ out.args = <<"Provider", "Computer">>

\* C17: in every configuration that validation accepts, System.Version (when
\* present) denotes an integer in 0..255 and System.Level (when present) an
\* integer in 0..15; a Version that denotes 256 or more, or a negative
\* integer, is rejected, and with 'Version must be between 0 and 255' when the
\* configuration is accepted once its Version is 0; an out-of-range Level is
\* rejected, and with 'Level must be between 0 and 15' when the configuration
\* is accepted once its Level is 0
C17_SystemVersionAndLevelInRange ==
    LET config == arg.config
        system == Get(Get(config, "Event"), "System")
        Denoted(field) == PyIntOf(Get(system, field))
        InRange(field, hi) ==
            Returned(Denoted(field)) /\ 0 <= Denoted(field).val /\ Denoted(field).val <= hi
        OutOfRange(field, hi) ==
            /\ Has(system, field) /\ Returned(Denoted(field))
            /\ (Denoted(field).val < 0 \/ Denoted(field).val > hi)
        With(field) ==
            SetItem(config, "Event",
                    SetItem(Get(config, "Event"), "System", SetItem(system, field, PyInt(0))))
        Rejected(field, hi, msg) ==
            OutOfRange(field, hi)
                => /\ Raised(out)
                   /\ Returned(ValidateWindowsEventConfig(With(field)))
                          => out = Raise(ValidationError, msg, <<Denoted(field).val>>)
    IN  (/\ op = "validate_windows_event_config"
         /\ Returned(ValidateStructure(config)))
            => /\ Returned(out)
                   => /\ Has(system, "Version") => InRange("Version", 255)
                      /\ Has(system, "Level") => InRange("Level", 15)
               /\ Rejected("Version", 255, "Version must be between 0 and 255")
               /\ Rejected("Level", 15, "Level must be between 0 and 15")

\* the configuration whose only defect is System.Version = 256 is rejected
\* for its Version
C17_Version256Rejected ==
    /\ op = "validate_windows_event_config"
    /\ Returned(ValidateStructure(arg.config))
    /\ Has(Get(Get(arg.config, "Event"), "System"), "Version")
    /\ Get(Get(Get(arg.config, "Event"), "System"), "Version") = PyInt(256)
    /\ out = Raise(ValidationError, "Version must be between 0 and 255", <<256>>)

\* C18: validate_windows_event_config reports the violation that comes first
\* in the order: top-level required keys, System required keys, Provider,
\* EventID, Correlation, Execution, Keywords, Version, Level, channel
\* cross-check, security-template check, RenderingInfo, EventData.  With each
\* check taken on its own part of the configuration, the outcome is the
\* failure of the first check of that order that fails, and acceptance when
\* none fails (for a configuration whose template, System element and
\* descriptor pass the checks the order does not name)
C18_FirstViolationInOrderIsReported ==
    LET config == arg.config
        event == Get(config, "Event")
        system == Get(event, "System")
        topMissing == SelectSeq(<<"event_descriptor", "template", "Event">>,
                                LAMBDA f : ~Has(config, f))
        Part(d, key, outcome) == IF Has(d, key) THEN outcome ELSE Ok
        checks ==
            <<ValidateSystemRequired(system),
              Part(system, "Provider", ValidateProvider(Get(system, "Provider"))),
              Part(system, "EventID", ValidateEventID(Get(system, "EventID"))),
              Part(system, "Correlation", ValidateCorrelation(Get(system, "Correlation"))),
              Part(system, "Execution", ValidateExecution(Get(system, "Execution"))),
              ValidateSystemKeywords(system),
              ValidateSystemNumber(system, "Version", 255),
              ValidateSystemNumber(system, "Level", 15),
              ValidateChannel(config),
              ValidateEventSpecific(config),
              Part(event, "RenderingInfo", ValidateRenderingInfo(Get(event, "RenderingInfo"))),
              Part(event, "EventData", ValidateEventData(Get(event, "EventData")))>>
        failing == {i \in 1..Len(checks) : Raised(checks[i])}
        first == CHOOSE i \in failing : \A j \in failing : i <= j
    IN  op = "validate_windows_event_config"
            => IF topMissing # << >>
               THEN out = Raise(ValidationError, "Missing required fields", topMissing)
               ELSE (/\ IsDict(Get(config, "template"))
                     /\ Has(Get(config, "template"), "message")
                     /\ Has(Get(config, "template"), "values")
                     /\ Has(event, "System")
                     /\ Returned(ValidateEventDescriptor(Get(config, "event_descriptor"))))
                        => IF failing = {} THEN Returned(out) ELSE out = checks[first]

\* a configuration that violates the Keywords, the RenderingInfo and the
\* EventData check at once is rejected for its Keywords
C18_KeywordsBeforeCultureAndBoolean ==
    /\ op = "validate_windows_event_config"
    /\ Returned(ValidateStructure(arg.config))
    /\ LET event == Get(arg.config, "Event")
       IN  /\ Raised(ValidateSystemKeywords(Get(event, "System")))
           /\ Has(event, "RenderingInfo")
           /\ Raised(ValidateRenderingInfo(Get(event, "RenderingInfo")))
           /\ Has(event, "EventData")
           /\ Raised(ValidateEventData(Get(event, "EventData")))
    /\ Raised(out) /\ out.msg = "Invalid Keywords format"

\* C19: the security-template check is applied exactly when the integer value
\* of the descriptor Id, given as a number or as numeric text, is one of the
\* cataloged ids: a configuration with a cataloged id is accepted only if
\* that id has a template and EventData holds every field the template
\* requires, and a configuration with another id never fails with a security
\* validation error
C19_CatalogedIdIsAlwaysChecked ==
    LET config == arg.config
        id == PyIntOf(Get(Get(config, "event_descriptor"), "Id"))
        cataloged == Returned(id) /\ id.val \in SecurityEventIDs
        event == Get(config, "Event")
        entries == IF /\ Has(event, "EventData")
                      /\ Has(Get(event, "EventData"), "Data")
                      /\ IsList(Get(Get(event, "EventData"), "Data"))
                   THEN Get(Get(event, "EventData"), "Data").elems
                   ELSE << >>
        Present(f) == \E i \in 1..Len(entries) : GetOrNone(entries[i], "Name") = PyStr(f)
    IN  (/\ op = "validate_windows_event_config"
         /\ Returned(ValidateStructure(config)))
            => /\ (cataloged /\ Returned(out))
                      => /\ id.val \in TemplateIds
                         /\ \A i \in 1..Len(LogonRequiredFields) : Present(LogonRequiredFields[i])
               /\ (~cataloged /\ Raised(out))
                      => /\ out.msg # "Security Event requires EventData"
                         /\ ~StartsWith(out.msg, "Security Event validation failed")


===========================================================================
